---- MODULE Spec2Model ----
(***************************************************************************)
(* State-machine model of health_tracker.py: the WomensHealthTracker       *)
(* object (self.data), the file user_data.json, and the value each call    *)
(* hands back to its caller.                                               *)
(*                                                                         *)
(* Text that the program inspects character by character (date strings)    *)
(* is a sequence of one-character strings; text it only stores and echoes  *)
(* (usernames, symptom and reminder wording) is an atomic string.          *)
(***************************************************************************)
EXTENDS Integers, Sequences, FiniteSets, TLC

VARIABLES
    data,    \* self.data
    disk,    \* the file DATA_FILE
    result,  \* what the last call handed back
    saved    \* whether the last call ran save_data

vars == <<data, disk, result, saved>>

(***************************************************************************)
(* Bounds and input universes.                                             *)
(***************************************************************************)

\* Store-wide number of logged entries (symptoms plus reminders) explored.
MaxEntries == 2

Users == {"alice", "bob"}

D_2024_01_01 == <<"2", "0", "2", "4", "-", "0", "1", "-", "0", "1">>
D_2024_1_1 == <<"2", "0", "2", "4", "-", "1", "-", "1">>
D_9999_12_20 == <<"9", "9", "9", "9", "-", "1", "2", "-", "2", "0">>
D_2024_13_40 == <<"2", "0", "2", "4", "-", "1", "3", "-", "4", "0">>
D_2024_02_30 == <<"2", "0", "2", "4", "-", "0", "2", "-", "3", "0">>
D_2024_01_09 == <<"2", "0", "2", "4", "-", "0", "1", "-", "0", "9">>
D_2024_01_10 == <<"2", "0", "2", "4", "-", "0", "1", "-", "1", "0">>

\* Date strings a caller passes to set_cycle_details.
DateStrings == {D_2024_01_01, D_2024_1_1, D_9999_12_20, D_2024_13_40, D_2024_02_30}

\* cycle_length arguments.
CycleLengths == {30}

\* (symptom, clock date) pairs: what is logged and what the clock reads then.
SymptomInputs == {<<"cramps", D_2024_01_10>>, <<"headache", D_2024_01_09>>}

\* (reminder, days_before) pairs.
ReminderInputs == {<<"Buy supplies", 5>>, <<"Call doctor", 5>>, <<"Call doctor", -2>>}

(***************************************************************************)
(* Python values held in a record.                                         *)
(***************************************************************************)

PyNone == [t |-> "NoneType", v |-> <<>>]
PyStr(s) == [t |-> "str", v |-> s]

\* `not x` for x None or a str
Falsy(x) == x.t = "NoneType" \/ x.v = <<>>

(***************************************************************************)
(* datetime: strptime(s, "%Y-%m-%d"), + / - timedelta(days=n), str(date)   *)
(***************************************************************************)

Digits == <<"0", "1", "2", "3", "4", "5", "6", "7", "8", "9">>
IsDigit(c) == \E i \in 1..10 : Digits[i] = c
DigitVal(c) == (CHOOSE i \in 1..10 : Digits[i] = c) - 1

RECURSIVE ToInt(_)
ToInt(s) == IF s = <<>> THEN 0
            ELSE 10 * ToInt(SubSeq(s, 1, Len(s) - 1)) + DigitVal(s[Len(s)])

\* %m : 1[0-2] | 0[1-9] | [1-9]
MatchesMonth(tok) ==
    \/ Len(tok) = 2 /\ tok[1] = "1" /\ tok[2] \in {"0", "1", "2"}
    \/ Len(tok) = 2 /\ tok[1] = "0" /\ IsDigit(tok[2]) /\ tok[2] # "0"
    \/ Len(tok) = 1 /\ IsDigit(tok[1]) /\ tok[1] # "0"

\* %d : 3[0-1] | [1-2]\d | 0[1-9] | [1-9] | " "[1-9]
MatchesDay(tok) ==
    \/ Len(tok) = 2 /\ tok[1] = "3" /\ tok[2] \in {"0", "1"}
    \/ Len(tok) = 2 /\ tok[1] \in {"1", "2"} /\ IsDigit(tok[2])
    \/ Len(tok) = 2 /\ tok[1] \in {"0", " "} /\ IsDigit(tok[2]) /\ tok[2] # "0"
    \/ Len(tok) = 1 /\ IsDigit(tok[1]) /\ tok[1] # "0"

IsLeap(y) == y % 4 = 0 /\ (y % 100 # 0 \/ y % 400 = 0)

DaysInMonth(y, m) ==
    IF m = 2 THEN (IF IsLeap(y) THEN 29 ELSE 28)
    ELSE IF m \in {4, 6, 9, 11} THEN 30 ELSE 31

DaysBeforeMonthTable == <<0, 31, 59, 90, 120, 151, 181, 212, 243, 273, 304, 334>>

DaysBeforeMonth(y, m) ==
    DaysBeforeMonthTable[m] + (IF m > 2 /\ IsLeap(y) THEN 1 ELSE 0)

DaysBeforeYear(y) ==
    (y - 1) * 365 + ((y - 1) \div 4) - ((y - 1) \div 100) + ((y - 1) \div 400)

\* proleptic Gregorian ordinal, 0001-01-01 is day 1
ymd2ord(y, m, d) == DaysBeforeYear(y) + DaysBeforeMonth(y, m) + d

ord2ymd(ordinal) ==
    LET n0 == ordinal - 1
        n400 == n0 \div 146097
        r400 == n0 % 146097
        n100 == r400 \div 36524
        r100 == r400 % 36524
        n4 == r100 \div 1461
        r4 == r100 % 1461
        n1 == r4 \div 365
        n == r4 % 365
        year == n400 * 400 + 1 + n100 * 100 + n4 * 4 + n1
        leap == n1 = 3 /\ (n4 # 24 \/ n100 = 3)
        guess == (n + 50) \div 32
        before(mm) == DaysBeforeMonthTable[mm] + (IF mm > 2 /\ leap THEN 1 ELSE 0)
        month == IF before(guess) > n THEN guess - 1 ELSE guess
    IN  IF n1 = 4 \/ n100 = 4
        THEN [y |-> year - 1, m |-> 12, d |-> 31]
        ELSE [y |-> year, m |-> month, d |-> n - before(month) + 1]

MinOrdinal == 1
MaxOrdinal == 3652059
MaxTimedeltaDays == 999999999

\* datetime.strptime(s, "%Y-%m-%d"): ok = FALSE stands for ValueError
strptime(s) ==
    LET bad == [ok |-> FALSE, y |-> 0, m |-> 0, d |-> 0]
        dashes == {i \in 6..Len(s) : s[i] = "-"}
    IN  IF Len(s) < 5 \/ (\E i \in 1..4 : ~IsDigit(s[i])) \/ s[5] # "-" \/ dashes = {}
        THEN bad
        ELSE LET p == CHOOSE i \in dashes : \A j \in dashes : i <= j
                 mtok == SubSeq(s, 6, p - 1)
                 dtok == SubSeq(s, p + 1, Len(s))
             IN  IF ~MatchesMonth(mtok) \/ ~MatchesDay(dtok)
                 THEN bad
                 ELSE LET y == ToInt(SubSeq(s, 1, 4))
                          m == ToInt(mtok)
                          d == ToInt(IF dtok[1] = " " THEN Tail(dtok) ELSE dtok)
                      IN  IF y < 1 \/ d > DaysInMonth(y, m)
                          THEN bad
                          ELSE [ok |-> TRUE, y |-> y, m |-> m, d |-> d]

\* date + timedelta(days=n): ok = FALSE stands for OverflowError
AddDays(date, n) ==
    LET o == ymd2ord(date.y, date.m, date.d) + n
    IN  IF n > MaxTimedeltaDays \/ n < -MaxTimedeltaDays \/ o < MinOrdinal \/ o > MaxOrdinal
        THEN [ok |-> FALSE, y |-> 0, m |-> 0, d |-> 0]
        ELSE [ok |-> TRUE] @@ ord2ymd(o)

RECURSIVE Pad(_, _)
Pad(n, width) ==
    IF width = 0 THEN <<>>
    ELSE Append(Pad(n \div 10, width - 1), Digits[(n % 10) + 1])

\* str(d.date()): "%04d-%02d-%02d"
DateStr(date) == Pad(date.y, 4) \o <<"-">> \o Pad(date.m, 2) \o <<"-">> \o Pad(date.d, 2)

(***************************************************************************)
(* The in-memory store self.data: a dict, which keeps insertion order.     *)
(* keys is the order of insertion, recs maps each key to its record.       *)
(***************************************************************************)

EmptyDict == [keys |-> <<>>, recs |-> <<>>]

Has(d, u) == u \in DOMAIN d.recs

\* d[u] = rec for a key not yet present
Insert(d, u, rec) ==
    [keys |-> Append(d.keys, u),
     recs |-> [k \in (DOMAIN d.recs) \cup {u} |-> IF k = u THEN rec ELSE d.recs[k]]]

\* d[u][field] = value, on the record of an existing key
Update(d, u, rec) == [d EXCEPT !.recs[u] = rec]

TotalEntries(d) ==
    LET RECURSIVE Sum(_)
        Sum(i) == IF i = 0 THEN 0
                  ELSE Sum(i - 1) + Len(d.recs[d.keys[i]].symptoms)
                                  + Len(d.recs[d.keys[i]].reminders)
    IN  Sum(Len(d.keys))

(***************************************************************************)
(* JSON documents: what json.dump writes and json.load reads.              *)
(***************************************************************************)

JNull == [j |-> "null"]
JString(s) == [j |-> "string", s |-> s]
JNumber(n) == [j |-> "number", n |-> n]
JArray(items) == [j |-> "array", items |-> items]
JObject(members) == [j |-> "object", members |-> members]

\* bytes that are not a JSON document
Garbage == [j |-> "garbage"]

NoFile == [exists |-> FALSE, content |-> JNull]
File(doc) == [exists |-> TRUE, content |-> doc]

\* variant: None written as an empty string instead of null
DumpOptStr_empty(x) == JString(x.v)

\* json.dump of None / of a str
DumpOptStr(x) == IF x.t = "NoneType" THEN JNull ELSE JString(x.v)

DumpSymptom(e) == JObject(<< <<"symptom", JString(e.symptom)>>, <<"date", JString(e.date)>> >>)

DumpReminder(e) == JObject(<< <<"reminder", JString(e.reminder)>>, <<"date", JString(e.date)>> >>)

DumpRecord(rec) ==
    JObject(<< <<"last_cycle_date", DumpOptStr(rec.last_cycle_date)>>,
               <<"cycle_length", JNumber(rec.cycle_length)>>,
               <<"symptoms", JArray([i \in 1..Len(rec.symptoms) |-> DumpSymptom(rec.symptoms[i])])>>,
               <<"reminders", JArray([i \in 1..Len(rec.reminders) |-> DumpReminder(rec.reminders[i])])>> >>)

\* json.dump(self.data, file, indent=4): members in the dict's insertion order
json_dump(d) ==
    JObject([i \in 1..Len(d.keys) |-> <<d.keys[i], DumpRecord(d.recs[d.keys[i]])>>])

\* value of an object's member (the last one of that name wins)
Member(obj, name) ==
    LET idx == {i \in 1..Len(obj.members) : obj.members[i][1] = name}
    IN  obj.members[CHOOSE i \in idx : \A k \in idx : k <= i][2]

LoadOptStr(v) == IF v.j = "null" THEN PyNone ELSE PyStr(v.s)

LoadSymptom(o) == [symptom |-> Member(o, "symptom").s, date |-> Member(o, "date").s]

LoadReminder(o) == [reminder |-> Member(o, "reminder").s, date |-> Member(o, "date").s]

LoadRecord(o) ==
    [last_cycle_date |-> LoadOptStr(Member(o, "last_cycle_date")),
     cycle_length |-> Member(o, "cycle_length").n,
     symptoms |-> LET a == Member(o, "symptoms").items
                  IN  [i \in 1..Len(a) |-> LoadSymptom(a[i])],
     reminders |-> LET a == Member(o, "reminders").items
                   IN  [i \in 1..Len(a) |-> LoadReminder(a[i])]]

\* json.load(file) of an object document: a dict in the members' order
json_load(doc) ==
    LET names == {doc.members[i][1] : i \in 1..Len(doc.members)}
        first(i) == \A k \in 1..(i - 1) : doc.members[k][1] # doc.members[i][1]
        RECURSIVE Order(_)
        Order(i) == IF i = 0 THEN <<>>
                    ELSE IF first(i) THEN Append(Order(i - 1), doc.members[i][1])
                    ELSE Order(i - 1)
    IN  [keys |-> Order(Len(doc.members)),
         recs |-> [u \in names |-> LoadRecord(Member(doc, u))]]

\* load_data: {} when the file is missing or does not parse
load_data(file) ==
    IF file.exists
    THEN IF file.content.j = "garbage" THEN EmptyDict ELSE json_load(file.content)
    ELSE EmptyDict

\* save_data: the file is overwritten with the dump of the whole store
save_data(d) == File(json_dump(d))

(***************************************************************************)
(* What a call hands back: the returned text (its template, and the values *)
(* formatted into it), or an exception that leaves the method.             *)
(***************************************************************************)

Returned(msg, user, text, date, lines) ==
    [raised |-> FALSE, msg |-> msg, user |-> user, text |-> text, date |-> date, lines |-> lines]

Raised(exc) ==
    [raised |-> TRUE, msg |-> exc, user |-> "", text |-> "", date |-> <<>>, lines |-> <<>>]

\* no call made yet on this object
NoCall == Returned("", "", "", <<>>, <<>>)

MsgDuplicateUser == "Error: User '{username}' already exists."
MsgUserNotFound == "Error: User not found."
MsgInvalidDate == "Error: Invalid date format. Use YYYY-MM-DD."
MsgNoCycleDetails == "Error: No cycle details found. Please set your cycle details first."
MsgRegistered == "User '{username}' registered successfully!"
MsgCycleUpdated == "Cycle details updated for '{username}'."
MsgSymptomLogged == "Symptom '{symptom}' logged for '{username}'."
MsgReminderAdded == "Reminder '{reminder}' added for {username} on {date}."
MsgNoReminders == "No reminders set."
MsgReminderLines == "- {reminder} on {date}"
MsgNextCycle == "Next cycle for {username} is predicted on {date}."
MsgNoSymptoms == "No symptoms logged."
MsgSymptomLines == "- {symptom} (logged on {date})"

(***************************************************************************)
(* sorted(reminders, key=lambda x: x["date"]): str comparison, stable.     *)
(***************************************************************************)

\* code points of the characters date strings are made of
CharCode(c) == IF c = " " THEN 32 ELSE IF c = "-" THEN 45 ELSE 48 + DigitVal(c)

RECURSIVE StrLess(_, _)
StrLess(a, b) ==
    IF b = <<>> THEN FALSE
    ELSE IF a = <<>> THEN TRUE
    ELSE IF a[1] = b[1] THEN StrLess(Tail(a), Tail(b))
    ELSE CharCode(a[1]) < CharCode(b[1])

\* variant: x put before the elements of equal key (an unstable sort)
InsertByDate_unstable(sortedSeq, x) ==
    LET k == Cardinality({i \in 1..Len(sortedSeq) : StrLess(sortedSeq[i].date, x.date)})
    IN  SubSeq(sortedSeq, 1, k) \o <<x>> \o SubSeq(sortedSeq, k + 1, Len(sortedSeq))

\* x put behind every element whose key is not greater than its own
InsertByDate(sortedSeq, x) ==
    LET after == {i \in 1..Len(sortedSeq) : ~StrLess(x.date, sortedSeq[i].date)}
        k == Cardinality(after)
    IN  SubSeq(sortedSeq, 1, k) \o <<x>> \o SubSeq(sortedSeq, k + 1, Len(sortedSeq))

RECURSIVE SortedByDate(_)
SortedByDate(seq) ==
    IF seq = <<>> THEN <<>>
    ELSE InsertByDate(SortedByDate(SubSeq(seq, 1, Len(seq) - 1)), seq[Len(seq)])

(***************************************************************************)
(* The operations.                                                         *)
(***************************************************************************)

NewRecord == [last_cycle_date |-> PyNone, cycle_length |-> 28,
              symptoms |-> <<>>, reminders |-> <<>>]

\* __init__: a process starts and loads the file
__init__ ==
    /\ data' = load_data(disk)
    /\ result' = NoCall
    /\ saved' = FALSE
    /\ UNCHANGED disk

register_user(username) ==
    IF Has(data, username)
    THEN /\ result' = Returned(MsgDuplicateUser, username, "", <<>>, <<>>)
         /\ saved' = FALSE
         /\ UNCHANGED <<data, disk>>
    ELSE /\ data' = Insert(data, username, NewRecord)
         /\ disk' = save_data(data')
         /\ saved' = TRUE
         /\ result' = Returned(MsgRegistered, username, "", <<>>, <<>>)

\* the two assignments of set_cycle_details
WithCycleDetails(rec, last_cycle_date, cycle_length) ==
    [rec EXCEPT !.last_cycle_date = PyStr(last_cycle_date), !.cycle_length = cycle_length]

\* variant: cycle_length assigned before the date is validated
set_cycle_details_length_first(username, last_cycle_date, cycle_length) ==
    IF ~Has(data, username)
    THEN /\ result' = Returned(MsgUserNotFound, "", "", <<>>, <<>>)
         /\ saved' = FALSE
         /\ UNCHANGED <<data, disk>>
    ELSE IF ~strptime(last_cycle_date).ok
    THEN /\ data' = Update(data, username,
                           [data.recs[username] EXCEPT !.cycle_length = cycle_length])
         /\ result' = Returned(MsgInvalidDate, "", "", <<>>, <<>>)
         /\ saved' = FALSE
         /\ UNCHANGED disk
    ELSE /\ data' = Update(data, username,
                           WithCycleDetails(data.recs[username], last_cycle_date, cycle_length))
         /\ disk' = save_data(data')
         /\ saved' = TRUE
         /\ result' = Returned(MsgCycleUpdated, username, "", <<>>, <<>>)

set_cycle_details(username, last_cycle_date, cycle_length) ==
    IF ~Has(data, username)
    THEN /\ result' = Returned(MsgUserNotFound, "", "", <<>>, <<>>)
         /\ saved' = FALSE
         /\ UNCHANGED <<data, disk>>
    ELSE IF ~strptime(last_cycle_date).ok
    THEN /\ result' = Returned(MsgInvalidDate, "", "", <<>>, <<>>)
         /\ saved' = FALSE
         /\ UNCHANGED <<data, disk>>
    ELSE /\ data' = Update(data, username,
                           WithCycleDetails(data.recs[username], last_cycle_date, cycle_length))
         /\ disk' = save_data(data')
         /\ saved' = TRUE
         /\ result' = Returned(MsgCycleUpdated, username, "", <<>>, <<>>)

WithSymptom(rec, symptom, today) ==
    [rec EXCEPT !.symptoms = Append(@, [symptom |-> symptom, date |-> today])]

\* variant: the symptom is appended and save_data is left out
add_symptom_unsaved(username, symptom, today) ==
    /\ TotalEntries(data) < MaxEntries
    /\ IF ~Has(data, username)
       THEN /\ result' = Returned(MsgUserNotFound, "", "", <<>>, <<>>)
            /\ saved' = FALSE
            /\ UNCHANGED <<data, disk>>
       ELSE /\ data' = Update(data, username, WithSymptom(data.recs[username], symptom, today))
            /\ result' = Returned(MsgSymptomLogged, username, symptom, <<>>, <<>>)
            /\ saved' = FALSE
            /\ UNCHANGED disk

\* today: str(datetime.now().date()), what the clock reads during the call
add_symptom(username, symptom, today) ==
    /\ TotalEntries(data) < MaxEntries
    /\ IF ~Has(data, username)
       THEN /\ result' = Returned(MsgUserNotFound, "", "", <<>>, <<>>)
            /\ saved' = FALSE
            /\ UNCHANGED <<data, disk>>
       ELSE /\ data' = Update(data, username, WithSymptom(data.recs[username], symptom, today))
            /\ disk' = save_data(data')
            /\ saved' = TRUE
            /\ result' = Returned(MsgSymptomLogged, username, symptom, <<>>, <<>>)

\* strptime(last_cycle_date) + timedelta(days=cycle_length)
NextCycleDate(rec) ==
    LET parsed == strptime(rec.last_cycle_date.v)
    IN  IF parsed.ok THEN AddDays(parsed, rec.cycle_length) ELSE parsed

\* variant: days_before added instead of subtracted
ReminderDate_added(next_cycle_date, days_before) == AddDays(next_cycle_date, days_before)

\* next_cycle_date - timedelta(days=days_before)
ReminderDate(next_cycle_date, days_before) == AddDays(next_cycle_date, -days_before)

WithReminder(rec, reminder, date) ==
    [rec EXCEPT !.reminders = Append(@, [reminder |-> reminder, date |-> date])]

add_reminder(username, reminder, days_before) ==
    /\ TotalEntries(data) < MaxEntries
    /\ IF ~Has(data, username)
       THEN /\ result' = Returned(MsgUserNotFound, "", "", <<>>, <<>>)
            /\ saved' = FALSE
            /\ UNCHANGED <<data, disk>>
       ELSE IF Falsy(data.recs[username].last_cycle_date)
       THEN /\ result' = Returned(MsgNoCycleDetails, "", "", <<>>, <<>>)
            /\ saved' = FALSE
            /\ UNCHANGED <<data, disk>>
       ELSE IF ~strptime(data.recs[username].last_cycle_date.v).ok
       THEN /\ result' = Raised("ValueError")
            /\ saved' = FALSE
            /\ UNCHANGED <<data, disk>>
       ELSE LET next_cycle_date == NextCycleDate(data.recs[username])
            IN  IF ~next_cycle_date.ok \/ ~ReminderDate(next_cycle_date, days_before).ok
                THEN /\ result' = Raised("OverflowError")
                     /\ saved' = FALSE
                     /\ UNCHANGED <<data, disk>>
                ELSE LET date == DateStr(ReminderDate(next_cycle_date, days_before))
                     IN  /\ data' = Update(data, username,
                                           WithReminder(data.recs[username], reminder, date))
                         /\ disk' = save_data(data')
                         /\ saved' = TRUE
                         /\ result' = Returned(MsgReminderAdded, username, reminder, date, <<>>)

\* the lines view_reminders joins: one per reminder, sorted by date
ReminderLines(reminders) ==
    LET s == SortedByDate(reminders)
    IN  [i \in 1..Len(s) |-> [text |-> s[i].reminder, date |-> s[i].date]]

view_reminders_result(d, username) ==
    IF ~Has(d, username) THEN Returned(MsgUserNotFound, "", "", <<>>, <<>>)
    ELSE IF d.recs[username].reminders = <<>> THEN Returned(MsgNoReminders, "", "", <<>>, <<>>)
    ELSE Returned(MsgReminderLines, "", "", <<>>, ReminderLines(d.recs[username].reminders))

\* variant: reminders.sort(...) on the stored list instead of sorted(...)
view_reminders_in_place(username) ==
    /\ result' = view_reminders_result(data, username)
    /\ saved' = FALSE
    /\ data' = IF Has(data, username)
               THEN Update(data, username,
                           [data.recs[username] EXCEPT !.reminders = SortedByDate(@)])
               ELSE data
    /\ UNCHANGED disk

view_reminders(username) ==
    /\ result' = view_reminders_result(data, username)
    /\ saved' = FALSE
    /\ UNCHANGED <<data, disk>>

predict_next_cycle_result(d, username) ==
    IF ~Has(d, username) THEN Returned(MsgUserNotFound, "", "", <<>>, <<>>)
    ELSE IF Falsy(d.recs[username].last_cycle_date)
    THEN Returned(MsgNoCycleDetails, "", "", <<>>, <<>>)
    ELSE IF ~strptime(d.recs[username].last_cycle_date.v).ok THEN Raised("ValueError")
    ELSE IF ~NextCycleDate(d.recs[username]).ok THEN Raised("OverflowError")
    ELSE Returned(MsgNextCycle, username, "", DateStr(NextCycleDate(d.recs[username])), <<>>)

predict_next_cycle(username) ==
    /\ result' = predict_next_cycle_result(data, username)
    /\ saved' = FALSE
    /\ UNCHANGED <<data, disk>>

\* variant: symptoms sorted by date as view_reminders does
SymptomLines_sorted(symptoms) ==
    LET s == SortedByDate(symptoms)
    IN  [i \in 1..Len(s) |-> [text |-> s[i].symptom, date |-> s[i].date]]

\* the lines view_symptoms joins: one per symptom, in list order
SymptomLines(symptoms) ==
    [i \in 1..Len(symptoms) |-> [text |-> symptoms[i].symptom, date |-> symptoms[i].date]]

view_symptoms_result(d, username) ==
    IF ~Has(d, username) THEN Returned(MsgUserNotFound, "", "", <<>>, <<>>)
    ELSE IF d.recs[username].symptoms = <<>> THEN Returned(MsgNoSymptoms, "", "", <<>>, <<>>)
    ELSE Returned(MsgSymptomLines, "", "", <<>>, SymptomLines(d.recs[username].symptoms))

view_symptoms(username) ==
    /\ result' = view_symptoms_result(data, username)
    /\ saved' = FALSE
    /\ UNCHANGED <<data, disk>>

(***************************************************************************)
(* Specification.                                                          *)
(***************************************************************************)

\* the object is constructed over a missing or an unreadable file
Init ==
    /\ disk \in {NoFile, File(Garbage)}
    /\ data = load_data(disk)
    /\ result = NoCall
    /\ saved = FALSE

Next ==
    \/ __init__
    \/ \E u \in Users : register_user(u)
    \/ \E u \in Users, s \in DateStrings, n \in CycleLengths : set_cycle_details(u, s, n)
    \/ \E u \in Users, i \in SymptomInputs : add_symptom(u, i[1], i[2])
    \/ \E u \in Users, i \in ReminderInputs : add_reminder(u, i[1], i[2])
    \/ \E u \in Users : view_reminders(u)
    \/ \E u \in Users : predict_next_cycle(u)
    \/ \E u \in Users : view_symptoms(u)

Spec == Init /\ [][Next]_vars

(***************************************************************************)
(* Vocabulary of the properties.                                           *)
(***************************************************************************)

ErrorMessages == {MsgDuplicateUser, MsgUserNotFound, MsgInvalidDate, MsgNoCycleDetails}
MutationMessages == {MsgRegistered, MsgCycleUpdated, MsgSymptomLogged, MsgReminderAdded}

\* this step is a call of one of the four mutating operations
MutatingCall ==
    \/ \E u \in Users : register_user(u)
    \/ \E u \in Users, s \in DateStrings, n \in CycleLengths : set_cycle_details(u, s, n)
    \/ \E u \in Users, i \in SymptomInputs : add_symptom(u, i[1], i[2])
    \/ \E u \in Users, i \in ReminderInputs : add_reminder(u, i[1], i[2])

\* the file holds the JSON document of the whole in-memory store
Persisted == disk = File(json_dump(data))

\* day number of the calendar date a date string denotes
Ordinal(s) == LET p == strptime(s) IN ymd2ord(p.y, p.m, p.d)

\* s is exactly YYYY-MM-DD and names a calendar date
IsIsoDate(s) ==
    /\ Len(s) = 10
    /\ \A i \in {1, 2, 3, 4, 6, 7, 9, 10} : IsDigit(s[i])
    /\ s[5] = "-" /\ s[8] = "-"
    /\ strptime(s).ok

IsPrefix(a, b) == Len(a) <= Len(b) /\ SubSeq(b, 1, Len(a)) = a

Registered == DOMAIN data.recs

(***************************************************************************)
(* C1: when register_user, set_cycle_details, add_symptom or add_reminder  *)
(* returns DuplicateUser, UserNotFound, InvalidDate or NoCycleDetails, the *)
(* in-memory store is what it was before the call and the file is not      *)
(* written.                                                                *)
(***************************************************************************)
C1_ErrorLeavesStoreUntouched ==
    [][(~result'.raised /\ result'.msg \in ErrorMessages /\ MutatingCall)
         => (data' = data /\ disk' = disk /\ ~saved')]_vars

\* InvalidDate came back for a user whose earlier cycle details are still there
C1_Witness ==
    /\ result.msg = MsgInvalidDate
    /\ ~saved
    /\ Has(data, "alice")
    /\ data.recs["alice"].last_cycle_date = PyStr(D_2024_01_01)
    /\ data.recs["alice"].cycle_length = 30

(***************************************************************************)
(* C2: after every successful mutating operation the file holds the whole  *)
(* in-memory store, and once it does, every later step keeps it so.        *)
(***************************************************************************)
C2_PersistedAfterMutation ==
    [][/\ (~result'.raised /\ result'.msg \in MutationMessages) => (saved' /\ Persisted')
       /\ UNCHANGED <<data, disk>> \/ (Persisted => Persisted')]_vars

\* a second entry was just logged and the file holds the store with it
C2_Witness ==
    /\ result.msg = MsgSymptomLogged
    /\ saved
    /\ Persisted
    /\ TotalEntries(data) = 2

(***************************************************************************)
(* C3: no exception leaves a core operation: every call returns a success  *)
(* or an error message.                                                    *)
(***************************************************************************)
C3_NoExceptionPropagates == ~result.raised

(***************************************************************************)
(* C4: after a successful set_cycle_details(u, date, length),              *)
(* predict_next_cycle(u) returns date + length days, and any step that is  *)
(* not a successful set_cycle_details(u, ...) leaves that answer as it is. *)
(***************************************************************************)
C4_PredictIsDatePlusLength ==
    [][\A u \in Users :
         /\ \A s \in DateStrings, n \in CycleLengths :
               (result'.msg = MsgCycleUpdated /\ set_cycle_details(u, s, n))
                 => LET r == predict_next_cycle_result(data', u)
                    IN  /\ ~r.raised
                        /\ r.msg = MsgNextCycle
                        /\ IsIsoDate(r.date)
                        /\ Ordinal(r.date) = Ordinal(s) + n
         /\ (/\ Has(data, u)
             /\ ~Falsy(data.recs[u].last_cycle_date)
             /\ ~(result'.msg = MsgCycleUpdated /\ result'.user = u))
               => predict_next_cycle_result(data', u) = predict_next_cycle_result(data, u)]_vars

(***************************************************************************)
(* C5: a successful add_reminder(u, r, d) appends exactly one entry, whose *)
(* text is r and whose date is last_cycle_date + cycle_length - d days of  *)
(* the record as it stood, and view_reminders(u) right after shows a line  *)
(* with that text and date.                                                *)
(***************************************************************************)
C5_ReminderDated ==
    [][\A u \in Users, i \in ReminderInputs :
         (result'.msg = MsgReminderAdded /\ add_reminder(u, i[1], i[2]))
           => LET old == data.recs[u]
                  new == data'.recs[u].reminders
                  e == new[Len(new)]
                  shown == view_reminders_result(data', u).lines
              IN  /\ Len(new) = Len(old.reminders) + 1
                  /\ SubSeq(new, 1, Len(old.reminders)) = old.reminders
                  /\ e.reminder = i[1]
                  /\ IsIsoDate(e.date)
                  /\ Ordinal(e.date) = Ordinal(old.last_cycle_date.v) + old.cycle_length - i[2]
                  /\ \E k \in 1..Len(shown) :
                        shown[k].text = i[1] /\ shown[k].date = e.date]_vars

\* a reminder two days after the predicted date (days_before = -2) was added
C5_Witness ==
    /\ result.msg = MsgReminderAdded
    /\ result.text = "Call doctor"
    /\ result.date = <<"2", "0", "2", "4", "-", "0", "2", "-", "0", "2">>
    /\ \E u \in Registered : data.recs[u].last_cycle_date = PyStr(D_2024_1_1)

(***************************************************************************)
(* C6: view_reminders lists every stored reminder exactly once, in         *)
(* ascending calendar order, and reminders of the same date in the order   *)
(* they were added.                                                        *)
(***************************************************************************)
\* p[k] is the position in the stored list of the k-th line shown
IsStableDateOrder(lines, stored, p) ==
    /\ \A k \in 1..Len(lines) :
          lines[k].text = stored[p[k]].reminder /\ lines[k].date = stored[p[k]].date
    /\ \A k, l \in 1..Len(lines) :
          k < l => \/ Ordinal(lines[k].date) < Ordinal(lines[l].date)
                   \/ Ordinal(lines[k].date) = Ordinal(lines[l].date) /\ p[k] < p[l]

C6_RemindersSorted ==
    [][\A u \in Users :
         (result'.msg = MsgReminderLines /\ view_reminders(u))
           => LET stored == data.recs[u].reminders
                  n == Len(stored)
              IN  /\ Len(result'.lines) = n
                  /\ \E p \in [1..n -> 1..n] :
                        /\ \A a, b \in 1..n : p[a] = p[b] => a = b
                        /\ IsStableDateOrder(result'.lines, stored, p)]_vars

\* shown in another order than stored: the later date was added first
C6_Witness ==
    /\ result.msg = MsgReminderLines
    /\ Len(result.lines) >= 2
    /\ \E u \in Registered :
          LET stored == data.recs[u].reminders
          IN  /\ Len(stored) = Len(result.lines)
              /\ Len(stored) >= 2
              /\ Ordinal(stored[1].date) > Ordinal(stored[2].date)
              /\ result.lines[1].date = stored[2].date

(***************************************************************************)
(* C7: saving the store and loading it again gives the same store: same    *)
(* usernames, same field values, same entries in the same order.           *)
(***************************************************************************)
C7_RoundTrip == load_data(save_data(data)) = data

\* a store with cycle details, a symptom and a reminder, as loaded by a new process
C7_Witness ==
    /\ result = NoCall
    /\ \E u \in Registered :
          /\ data.recs[u].last_cycle_date.t = "str"
          /\ Len(data.recs[u].symptoms) = 1
          /\ Len(data.recs[u].reminders) = 1
    /\ \E u \in Registered : data.recs[u].last_cycle_date.t = "NoneType"

(***************************************************************************)
(* C8: every record's last_cycle_date is absent or a string of the form    *)
(* YYYY-MM-DD that names a calendar date.                                  *)
(***************************************************************************)
C8_LastCycleDateIsIso ==
    \A u \in Registered :
        \/ data.recs[u].last_cycle_date.t = "NoneType"
        \/ IsIsoDate(data.recs[u].last_cycle_date.v)

(***************************************************************************)
(* C9: view_symptoms lists the symptoms one line per logged entry in the   *)
(* order they were logged: logging a symptom adds its line at the end of   *)
(* what view_symptoms showed before, and moves no other line.              *)
(***************************************************************************)
C9_SymptomsInLoggingOrder ==
    [][\A u \in Users :
         /\ \A i \in SymptomInputs :
               (result'.msg = MsgSymptomLogged /\ add_symptom(u, i[1], i[2]))
                 => view_symptoms_result(data', u).lines
                      = Append(view_symptoms_result(data, u).lines,
                               [text |-> i[1], date |-> i[2]])
         /\ (result'.msg = MsgSymptomLines /\ view_symptoms(u))
               => /\ Len(result'.lines) = Len(data.recs[u].symptoms)
                  /\ \A k \in 1..Len(result'.lines) :
                        /\ result'.lines[k].text = data.recs[u].symptoms[k].symptom
                        /\ result'.lines[k].date = data.recs[u].symptoms[k].date]_vars

\* shown as logged although the first entry carries the later date
C9_Witness ==
    /\ result.msg = MsgSymptomLines
    /\ Len(result.lines) = 2
    /\ Ordinal(result.lines[1].date) > Ordinal(result.lines[2].date)

(***************************************************************************)
(* C10: the store only grows: no step removes a username, every symptoms   *)
(* and reminders list before a step is a prefix of the list after it, and  *)
(* a successful add_symptom / add_reminder adds one entry at the end of    *)
(* one list of one user and changes nothing else.                          *)
(***************************************************************************)
\* the records agree except, possibly, in the named list of user u
SameExcept(u, list) ==
    /\ data'.keys = data.keys
    /\ \A v \in Registered :
          /\ v # u => data'.recs[v] = data.recs[v]
          /\ data'.recs[v].last_cycle_date = data.recs[v].last_cycle_date
          /\ data'.recs[v].cycle_length = data.recs[v].cycle_length
          /\ list # "symptoms" => data'.recs[v].symptoms = data.recs[v].symptoms
          /\ list # "reminders" => data'.recs[v].reminders = data.recs[v].reminders

C10_AppendOnly ==
    [][/\ \A u \in Registered :
            /\ Has(data', u)
            /\ IsPrefix(data.recs[u].symptoms, data'.recs[u].symptoms)
            /\ IsPrefix(data.recs[u].reminders, data'.recs[u].reminders)
       /\ result'.msg = MsgSymptomLogged
            => /\ Len(data'.recs[result'.user].symptoms)
                    = Len(data.recs[result'.user].symptoms) + 1
               /\ SameExcept(result'.user, "symptoms")
       /\ result'.msg = MsgReminderAdded
            => /\ Len(data'.recs[result'.user].reminders)
                    = Len(data.recs[result'.user].reminders) + 1
               /\ SameExcept(result'.user, "reminders")]_vars

\* reminders were shown sorted while the stored list keeps the order of adding,
\* beside a second user
C10_Witness ==
    /\ result.msg = MsgReminderLines
    /\ Cardinality(Registered) = 2
    /\ \E u \in Registered :
          /\ Len(data.recs[u].reminders) = 2
          /\ StrLess(data.recs[u].reminders[2].date, data.recs[u].reminders[1].date)

====
